---- MODULE Spec2Model ----
(***************************************************************************)
(* Shared-module pruning and deterministic packaging of FitGlue/server:    *)
(*   scripts/analyze_ts_imports.py   resolver and path materializer (TS)   *)
(*   scripts/analyze_go_imports.py   dependency lister and directories (Go)*)
(*   scripts/build_typescript_zips.py, scripts/build_function_zips.py      *)
(*                                   staging and archive serialization     *)
(* Strings are TLA+ strings; module IDs of the registry are numbered.      *)
(***************************************************************************)
EXTENDS Integers, Sequences, FiniteSets, TLC

VARIABLES
    modules_config,   \* the loaded registry: [modules, import_patterns]
    deep_imports,     \* resolve_modules argument: set of import path strings
    barrel_symbols,   \* resolve_modules argument: set of symbol names
    best,             \* best_match of every deep import scanned (line 130-138)
    required,         \* the set being resolved
    changed,          \* loop flag of the closure
    iterations,       \* loop counter of the closure
    paths,            \* result of get_module_paths
    pc,               \* position in analyze_handler: idle, closure, returned, done
    function_name,    \* analyze_go_imports: the Go function being analyzed
    lister,           \* outcome of `go list -deps`: [ok, stdout]
    pkg_deps,         \* result of analyze_go_imports.get_pkg_dependencies
    directories,      \* result of get_pkg_directories
    go_pc,            \* position in the Go analysis: idle, analyzed, done
    builder,          \* the build script that runs: "ts", "go" or "none"
    unit_name,        \* the handler or function being packaged
    src_tree,         \* the source tree: path (sequence of names) -> file bytes
    prune,            \* ENABLE_PRUNING / the prune argument
    unit_refs,        \* what get_handler_imports finds in the handler: [deep, symbols]
    unit_lister,      \* what `go list -deps` answers for the function
    run,              \* the packaging runs of the unit: [pc, meta, staged, archive]
    script,           \* main() of which build script runs: "ts", "go" or "none"
    main_pc,          \* position in main(): start, loaded, running, exited
    ENABLE_PRUNING,   \* the global flag of build_typescript_zips.py / prune of main
    config_loaded,    \* modules_config is not None
    config_file,      \* shared_modules.json on disk: [ok, value]
    units,            \* the handlers discovered / the functions listed, in order
    task,             \* unit -> [pc, faults, resolved]: the unit's pipeline
    touched,          \* unit -> the paths below the output directory its task created, wrote or deleted
    zips_dir,         \* output_dir, /tmp/fitglue-function-zips: the paths in it
    exit_code,        \* the exit status of the run, -1 while it runs
    v_pc,             \* position in the validator's main()
    shared_fs,        \* the validator's shared_dir: path -> file bytes
    shared_package,   \* shared/package.json: [present, exports]
    all_errors,       \* the validator's all_errors list
    all_warnings,     \* the validator's all_warnings list
    report,           \* what the validator printed: [errors, warnings]
    validator_exit    \* the validator's exit status, -1 while it runs

resolveVars == <<modules_config, deep_imports, barrel_symbols, best, required,
                 changed, iterations, paths, pc>>

goVars == <<function_name, lister, pkg_deps, directories, go_pc>>

archiveVars == <<builder, unit_name, src_tree, prune, unit_refs, unit_lister, run>>

mainVars == <<script, main_pc, ENABLE_PRUNING, config_loaded, config_file, units, task,
              touched, zips_dir, exit_code>>

validatorVars == <<v_pc, shared_fs, shared_package, all_errors, all_warnings, report,
                   validator_exit>>

vars == <<resolveVars, goVars, archiveVars, mainVars, validatorVars>>

-----------------------------------------------------------------------------
(* Bounds of the model *)

\* defined module IDs of a generated registry are 1..MaxMods; 0 is undefined
MaxMods == 3
\* most depends_on edges in a generated registry
MaxEdges == 2
\* most deep references in one raw reference set
MaxRefs == 2

(* Program constants *)

\* analyze_ts_imports.py:166  max_iterations = 50  # Safety limit
max_iterations == 50

\* the barrel import path, analyze_ts_imports.py:126,150,152
Barrel == "@fitglue/shared"

-----------------------------------------------------------------------------
(* Python built-ins used by the code *)

\* str.startswith
startswith(s, p) == Len(p) <= Len(s) /\ SubSeq(s, 1, Len(p)) = p

Range(seq) == {seq[i] : i \in 1..Len(seq)}

\* the orders a set may be iterated in (set and dict iteration order)
RECURSIVE Ascending(_)
Ascending(S) ==
    IF S = {} THEN <<>>
    ELSE LET m == CHOOSE x \in S : \A y \in S : x <= y
         IN <<m>> \o Ascending(S \ {m})

Reverse(seq) == [i \in 1..Len(seq) |-> seq[Len(seq) + 1 - i]]

Rotate(seq, k) == [i \in 1..Len(seq) |-> seq[((i + k - 1) % Len(seq)) + 1]]

\* every order of a small set of keys
Permutations_(S) ==
    {f \in [1..Cardinality(S) -> S] : \A i, j \in 1..Cardinality(S) : f[i] = f[j] => i = j}

\* orders of a set of module IDs: the ascending and the descending order and,
\* for the sets of a generated registry (IDs 0..MaxMods), their rotations, so
\* that every element comes first, last and in between
Orders(S) ==
    LET asc == Ascending(S)
        desc == Reverse(asc)
    IN IF S = {} THEN {<<>>}
       ELSE IF Cardinality(S) > MaxMods + 1 THEN {asc, desc}
       ELSE {Rotate(asc, k) : k \in 0..(Cardinality(S) - 1)}
               \cup {Rotate(desc, k) : k \in 0..(Cardinality(S) - 1)}

-----------------------------------------------------------------------------
(* resolve_modules, analyze_ts_imports.py:105-182 *)

\* a pattern's value is a list of module IDs or a single module ID
\* (isinstance(pattern_modules, list), lines 141-144 and 153-156)
PatternModules(v) ==
    IF "list" \in DOMAIN v THEN Range(v.list) ELSE {v.scalar}

\* lines 130-136: scan the patterns in dict order, keep the longest match
RECURSIVE BestMatchFrom(_, _, _, _)
BestMatchFrom(imp, order, i, bm) ==
    IF i > Len(order) THEN bm
    ELSE LET pattern == order[i]
         IN IF startswith(imp, pattern) /\ Len(pattern) > bm.best_len
            THEN BestMatchFrom(imp, order, i + 1,
                               [found |-> TRUE, best_match |-> pattern, best_len |-> Len(pattern)])
            ELSE BestMatchFrom(imp, order, i + 1, bm)

\* mutant: the length comparison of line 134 is lost, the last match wins
RECURSIVE LastMatchFrom(_, _, _, _)
LastMatchFrom(imp, order, i, bm) ==
    IF i > Len(order) THEN bm
    ELSE LET pattern == order[i]
         IN IF startswith(imp, pattern)
            THEN LastMatchFrom(imp, order, i + 1,
                               [found |-> TRUE, best_match |-> pattern, best_len |-> Len(pattern)])
            ELSE LastMatchFrom(imp, order, i + 1, bm)

\* mutant: the scan stops at the first pattern that matches
BestMatch_first_match(imp, order) ==
    LET hits == {i \in 1..Len(order) : startswith(imp, order[i])}
    IN IF hits = {} THEN [found |-> FALSE, best_match |-> "", best_len |-> 0]
       ELSE LET k == CHOOSE i \in hits : \A j \in hits : i <= j
            IN [found |-> TRUE, best_match |-> order[k], best_len |-> Len(order[k])]

BestMatch_last_match(imp, order) ==
    LastMatchFrom(imp, order, 1, [found |-> FALSE, best_match |-> "", best_len |-> 0])

BestMatch(imp, order) ==
    BestMatchFrom(imp, order, 1, [found |-> FALSE, best_match |-> "", best_len |-> 0])

\* lines 124-144: modules added for the deep imports
DeepSeeds(deep, import_patterns, bestOf) ==
    UNION {IF bestOf[imp].found
           THEN PatternModules(import_patterns[bestOf[imp].best_match])
           ELSE {} : imp \in deep \ {Barrel}}

\* mutant: the condition of line 150 is lost, the barrel is always added
BarrelSeeds_unconditional(deep, symbols, import_patterns) ==
    IF Barrel \in DOMAIN import_patterns
    THEN PatternModules(import_patterns[Barrel])
    ELSE {}

\* mutant: line 150 tests the symbols only, not the whole-barrel reference
BarrelSeeds_symbols_only(deep, symbols, import_patterns) ==
    IF symbols # {}
    THEN IF Barrel \in DOMAIN import_patterns
         THEN PatternModules(import_patterns[Barrel])
         ELSE {}
    ELSE {}

\* lines 150-156: modules added for the barrel
BarrelSeeds(deep, symbols, import_patterns) ==
    IF symbols # {} \/ Barrel \in deep
    THEN IF Barrel \in DOMAIN import_patterns
         THEN PatternModules(import_patterns[Barrel])
         ELSE {}
    ELSE {}

\* lines 159-161: always-include modules
AlwaysSeeds(modules) ==
    {mod_id \in DOMAIN modules : modules[mod_id].always_include}

\* mutant: the pass rebuilds the set from the dependencies it finds, and
\* forgets the members it started from
ScanFrom_forgets(modules, order, i, acc) ==
    LET deps == UNION {modules[m].depends_on : m \in Range(order) \cap DOMAIN modules}
    IN [required |-> deps, changed |-> ~(deps \subseteq acc.required)]

\* lines 172-180: one pass over list(required); the snapshot is scanned in
\* `order`, the set itself grows while it is scanned
RECURSIVE ScanFrom(_, _, _, _)
ScanFrom(modules, order, i, acc) ==
    IF i > Len(order) THEN acc
    ELSE LET mod_id == order[i]
         IN IF mod_id \notin DOMAIN modules
            THEN ScanFrom(modules, order, i + 1, acc)
            ELSE LET deps == modules[mod_id].depends_on
                 IN ScanFrom(modules, order, i + 1,
                             [required |-> acc.required \cup deps,
                              changed |-> acc.changed \/ ~(deps \subseteq acc.required)])

\* line 168: the loop condition
LoopContinues(ch, it) == ch /\ it < max_iterations

\* lines 185-201: get_module_paths
get_module_paths(required_modules, modules) ==
    UNION {modules[mod_id].paths : mod_id \in required_modules \cap DOMAIN modules}

-----------------------------------------------------------------------------
(* The registries and raw reference sets the model is run on *)

Mods == 1..MaxMods
ModIds == 0..MaxMods

PTypes == "@fitglue/shared/dist/types"
PTypesPb == "@fitglue/shared/dist/types/pb"
PatternKeys == {Barrel, PTypes, PTypesPb}

\* deep references as extract_imports yields them (lines 51-53 and 74)
Refs == {Barrel,
         "@fitglue/shared/dist/types/pb/user",
         "@fitglue/shared/dist/types/events",
         "@fitglue/shared/dist/utils"}
RefSets == {R \in SUBSET Refs : Cardinality(R) <= MaxRefs}
SymbolSets == {{}, {"Logger"}}

ModulePaths(i) ==
    CASE i = 1 -> {"lib/core"}
      [] i = 2 -> {"lib/net"}
      [] i = 3 -> {"util.ts", "lib/util/io"}
      [] OTHER -> {"lib/extra"}

MakeModules(ids, edges, always) ==
    [i \in ids |-> [paths |-> ModulePaths(i),
                    depends_on |-> {e[2] : e \in {x \in edges : x[1] = i}},
                    always_include |-> i \in always]]

FixedPatterns ==
    (Barrel :> [list |-> <<1>>]) @@ (PTypes :> [list |-> <<2>>]) @@ (PTypesPb :> [scalar |-> 3])

\* any dependency relation of at most MaxEdges edges, dangling targets included
EdgeSets == {E \in SUBSET (Mods \X ModIds) : Cardinality(E) <= MaxEdges}
AlwaysSets == {{}, {1}}

DependencyRegistries ==
    {[modules |-> MakeModules(Mods, E, A), import_patterns |-> FixedPatterns] :
        E \in EdgeSets, A \in AlwaysSets}

\* any pattern mapping over the three keys: absent, a single ID, a list
PatternValues ==
    {[scalar |-> m] : m \in ModIds} \cup {[list |-> <<m>>] : m \in Mods}
        \cup {[list |-> <<>>], [list |-> <<1, 2>>]}
PatternMaps ==
    UNION {[K -> PatternValues] : K \in SUBSET PatternKeys}

PatternRegistries ==
    {[modules |-> MakeModules(Mods, {<<2, 1>>}, {}), import_patterns |-> ip] :
        ip \in PatternMaps}

\* a dependency chain 1 -> 2 -> ... -> n, deeper than the iteration ceiling
ChainLens == {max_iterations + 1, max_iterations + 2}
ChainRegistries ==
    {[modules |-> MakeModules(1..n, {<<i, i + 1>> : i \in 1..(n - 1)}, A),
      import_patterns |-> FixedPatterns] : n \in ChainLens, A \in {{}, {1}}}

Registries == DependencyRegistries \cup PatternRegistries \cup ChainRegistries

-----------------------------------------------------------------------------
(* analyze_handler, analyze_ts_imports.py:204-226, step by step *)

\* the resolver before any call
ResolveIdle ==
    /\ deep_imports = {}
    /\ barrel_symbols = {}
    /\ best = <<>>
    /\ required = {}
    /\ changed = FALSE
    /\ iterations = 0
    /\ paths = {}
    /\ pc = "idle"

\* the Go analysis before any call
GoIdle ==
    /\ function_name = ""
    /\ lister = [ok |-> TRUE, stdout |-> <<>>]
    /\ pkg_deps = [is_none |-> FALSE, value |-> {}]
    /\ directories = {}
    /\ go_pc = "idle"

\* no build script runs
ArchiveIdle ==
    /\ builder = "none"
    /\ unit_name = ""
    /\ src_tree = <<>>
    /\ prune = TRUE
    /\ unit_refs = [deep |-> {}, symbols |-> {}]
    /\ unit_lister = [ok |-> TRUE, stdout |-> <<>>]
    /\ run = <<>>

\* no main() of a build script runs
MainIdle ==
    /\ script = "none"
    /\ main_pc = "start"
    /\ ENABLE_PRUNING = TRUE
    /\ config_loaded = FALSE
    /\ config_file = [ok |-> FALSE, value |-> <<>>]
    /\ units = <<>>
    /\ task = <<>>
    /\ touched = <<>>
    /\ zips_dir = {}
    /\ exit_code = -1

\* the validator does not run
ValidatorIdle ==
    /\ v_pc = "idle"
    /\ shared_fs = <<>>
    /\ shared_package = [present |-> FALSE, exports |-> <<>>]
    /\ all_errors = <<>>
    /\ all_warnings = <<>>
    /\ report = [errors |-> <<>>, warnings |-> <<>>]
    /\ validator_exit = -1

InitResolve ==
    /\ modules_config \in Registries
    /\ ResolveIdle
    /\ GoIdle
    /\ ArchiveIdle
    /\ MainIdle
    /\ ValidatorIdle

\* resolve_modules lines 119-166: the seeds and the loop's initial state
ResolveSeeds ==
    /\ pc = "idle"
    /\ \E deep \in RefSets, symbols \in SymbolSets,
          porder \in Permutations_(DOMAIN modules_config.import_patterns) :
          LET import_patterns == modules_config.import_patterns
              bestOf == [imp \in deep \ {Barrel} |-> BestMatch(imp, porder)]
          IN /\ deep_imports' = deep
             /\ barrel_symbols' = symbols
             /\ best' = bestOf
             /\ required' = DeepSeeds(deep, import_patterns, bestOf)
                               \cup BarrelSeeds(deep, symbols, import_patterns)
                               \cup AlwaysSeeds(modules_config.modules)
    /\ changed' = TRUE
    /\ iterations' = 0
    /\ pc' = "closure"
    /\ UNCHANGED <<modules_config, paths>>
    /\ UNCHANGED <<goVars, archiveVars, mainVars, validatorVars>>

\* resolve_modules lines 168-180: one iteration of the closure loop
ClosureIteration ==
    /\ pc = "closure"
    /\ LoopContinues(changed, iterations)
    /\ \E order \in Orders(required) :
          LET r == ScanFrom(modules_config.modules, order, 1,
                            [required |-> required, changed |-> FALSE])
          IN /\ required' = r.required
             /\ changed' = r.changed
    /\ iterations' = iterations + 1
    /\ UNCHANGED <<modules_config, deep_imports, barrel_symbols, best, paths, pc>>
    /\ UNCHANGED <<goVars, archiveVars, mainVars, validatorVars>>

\* resolve_modules line 182: the loop is left and the set returned
ResolveReturn ==
    /\ pc = "closure"
    /\ ~LoopContinues(changed, iterations)
    /\ pc' = "returned"
    /\ UNCHANGED <<modules_config, deep_imports, barrel_symbols, best, required,
                   changed, iterations, paths>>
    /\ UNCHANGED <<goVars, archiveVars, mainVars, validatorVars>>

\* analyze_handler line 219: the paths of the resolved modules
GetModulePaths ==
    /\ pc = "returned"
    /\ paths' = get_module_paths(required, modules_config.modules)
    /\ pc' = "done"
    /\ UNCHANGED <<modules_config, deep_imports, barrel_symbols, best, required,
                   changed, iterations>>
    /\ UNCHANGED <<goVars, archiveVars, mainVars, validatorVars>>

NextResolve ==
    \/ ResolveSeeds
    \/ ClosureIteration
    \/ ResolveReturn
    \/ GetModulePaths

SpecResolve == InitResolve /\ [][NextResolve]_vars

-----------------------------------------------------------------------------
(* What the claims about resolve_modules speak of, stated without the code *)

Returned == pc \in {"returned", "done"}

Modules == modules_config.modules
ImportPatterns == modules_config.import_patterns

DependsOn(m) == IF m \in DOMAIN Modules THEN Modules[m].depends_on ELSE {}

\* everything reachable from S over depends_on edges
RECURSIVE ReachableFrom(_)
ReachableFrom(S) ==
    LET n == S \cup UNION {DependsOn(m) : m \in S}
    IN IF n = S THEN S ELSE ReachableFrom(n)

\* the module IDs a pattern is declared to map to
ListedFor(p) ==
    IF p \notin DOMAIN ImportPatterns THEN {}
    ELSE LET v == ImportPatterns[p]
         IN IF "list" \in DOMAIN v THEN {v.list[i] : i \in DOMAIN v.list} ELSE {v.scalar}

Matching(imp) == {p \in DOMAIN ImportPatterns : startswith(imp, p)}
LongestMatching(imp) ==
    {p \in Matching(imp) : \A q \in Matching(imp) : Len(q) <= Len(p)}

DeepRefs == deep_imports \ {Barrel}
BarrelObserved == barrel_symbols # {} \/ Barrel \in deep_imports

\* the seeds of the specification's rules 2, 3 and 4
RuleSeeds ==
    UNION {ListedFor(p) : p \in UNION {LongestMatching(imp) : imp \in DeepRefs}}
        \cup (IF BarrelObserved THEN ListedFor(Barrel) ELSE {})
        \cup {m \in DOMAIN Modules : Modules[m].always_include}

\* C1: the returned set is closed under depends_on: no module of the result
\* that the registry defines has a declared dependency outside the result.
ClosureComplete ==
    Returned => \A m \in required \cap DOMAIN Modules : Modules[m].depends_on \subseteq required

\* C2: every module of the returned set is reachable over depends_on edges
\* from a seed of the matching rules; nothing else is in the result.
ClosureMinimal ==
    Returned => required \subseteq ReachableFrom(RuleSeeds)

ClosureMinimalWitness ==
    /\ Returned
    /\ DeepRefs # {}
    /\ \E m \in required : DependsOn(m) # {}
    /\ \E m \in DOMAIN Modules : m \notin required

\* C3: resolve_modules never returns a set when the loop stopped at the
\* ceiling while its last iteration still added a module; it fails instead.
CeilingFails ==
    Returned => ~(iterations >= max_iterations /\ changed)

\* C5: when patterns P and Q both prefix a deep reference and P is a strict
\* prefix of Q, the reference is resolved by the longest pattern, never by P:
\* the longest pattern's modules are in the result, and a module listed for P
\* is in the result only when the rules reach it some other way.
LongestPrefixOnly ==
    Returned =>
        \A imp \in DeepRefs : \A P \in Matching(imp), Q \in Matching(imp) :
            (P # Q /\ startswith(Q, P)) =>
                /\ best[imp].found
                /\ best[imp].best_match \in LongestMatching(imp)
                /\ best[imp].best_match # P
                /\ ListedFor(best[imp].best_match) \subseteq required
                /\ ListedFor(P) \cap required \subseteq ReachableFrom(RuleSeeds)

LongestPrefixWitness ==
    /\ Returned
    /\ \E imp \in DeepRefs : \E P \in Matching(imp), Q \in Matching(imp) :
          /\ P # Q /\ startswith(Q, P)
          /\ ListedFor(P) # {}
          /\ ListedFor(P) \cap required = {}
          /\ ListedFor(Q) # {}

\* the set after at most n passes, each adding the declared dependencies of
\* the members it started with, ending early when a pass adds nothing
RECURSIVE PassesFrom(_, _)
PassesFrom(S, n) ==
    LET T == S \cup UNION {DependsOn(m) : m \in S}
    IN IF n = 0 \/ T = S THEN S ELSE PassesFrom(T, n - 1)

\* C24: the returned set is a function of the deep references, the barrel
\* symbols and the registry taken as sets, whatever the orders in which the
\* patterns, the modules and the required set were iterated: it is the seeds
\* of the rules followed by the passes of the loop, up to the ceiling.
ResolveDeterministic ==
    Returned => required = PassesFrom(RuleSeeds, max_iterations)

ResolveDeterministicWitness ==
    /\ Returned
    /\ iterations = max_iterations /\ changed
    /\ \E imp \in DeepRefs : Matching(imp) # {}
    /\ required # ReachableFrom(RuleSeeds)

\* C6: once a barrel symbol or the whole-barrel reference was observed, every
\* module the barrel pattern maps to is in the result.
BarrelOverApproximation ==
    (Returned /\ BarrelObserved) => ListedFor(Barrel) \subseteq required

BarrelWitness ==
    /\ Returned
    /\ barrel_symbols # {}
    /\ Barrel \notin deep_imports
    /\ DeepRefs # {}
    /\ Cardinality(ListedFor(Barrel)) = 2
    /\ ListedFor(Barrel) \subseteq required

\* C7: every always_include module is in the result, for every raw reference
\* set, together with everything reachable from it over depends_on.
AlwaysIncludeClosed ==
    Returned =>
        \A m \in DOMAIN Modules :
            Modules[m].always_include => ReachableFrom({m}) \subseteq required

\* the proper ancestor prefixes of a path: a and a/b for a/b/c
Ancestors(path) ==
    {SubSeq(path, 1, k - 1) : k \in {i \in 1..Len(path) : SubSeq(path, i, i) = "/"}}

\* C8 (get_module_paths): the materialized paths hold every declared path of
\* every resolved module and every proper ancestor prefix of each.
AncestorClosureTs ==
    pc = "done" =>
        \A m \in required \cap DOMAIN Modules : \A path \in Modules[m].paths :
            path \in paths /\ Ancestors(path) \subseteq paths

-----------------------------------------------------------------------------
(* analyze_go_imports.py: the compiler-backed extraction and its directories *)

\* analyze_go_imports.py:25 and build_function_zips.py:22
MODULE_PREFIX == "github.com/fitglue/server/src/go/pkg"

\* str.lstrip(c) for a single character c
RECURSIVE lstrip(_, _)
lstrip(s, c) ==
    IF Len(s) > 0 /\ SubSeq(s, 1, 1) = c THEN lstrip(SubSeq(s, 2, Len(s)), c) ELSE s

\* str.split(sep) for a single character sep
RECURSIVE split(_, _)
split(s, sep) ==
    LET hits == {i \in 1..Len(s) : SubSeq(s, i, i) = sep}
    IN IF hits = {} THEN <<s>>
       ELSE LET k == CHOOSE i \in hits : \A j \in hits : i <= j
            IN <<SubSeq(s, 1, k - 1)>> \o split(SubSeq(s, k + 1, Len(s)), sep)

\* sep.join(parts)
RECURSIVE join(_, _)
join(sep, parts) ==
    IF Len(parts) = 0 THEN ""
    ELSE IF Len(parts) = 1 THEN parts[1]
    ELSE parts[1] \o sep \o join(sep, Tail(parts))

\* result.stdout.strip().split("\n"): the lines of the lister's output; an
\* empty output splits into one empty line
StdoutLines(stdout) == IF stdout = <<>> THEN <<"">> ELSE stdout

\* lines 68-74 (and build_function_zips.py:49-55): keep the lines that start
\* with the prefix, cut the prefix and leading slashes, drop the root itself
InternalPackages(stdout) ==
    {lstrip(SubSeq(line, Len(MODULE_PREFIX) + 1, Len(line)), "/") :
        line \in {l \in Range(StdoutLines(stdout)) : startswith(l, MODULE_PREFIX)}} \ {""}

\* analyze_go_imports.py:44-76; a failed lister is CalledProcessError (64-66)
get_pkg_dependencies(outcome) ==
    IF ~outcome.ok
    THEN [is_none |-> FALSE, value |-> {}]
    ELSE [is_none |-> FALSE, value |-> InternalPackages(outcome.stdout)]

\* analyze_go_imports.py:79-103
get_pkg_directories(deps) ==
    deps \cup UNION {LET parts == split(dep, "/")
                     IN {join("/", SubSeq(parts, 1, i)) : i \in 1..(Len(parts) - 1)} :
                     dep \in deps}

\* analyze_go_imports.py:28-41, two of the functions
GO_FUNCTIONS == {"router", "enricher"}

\* import paths `go list -deps` may print for a function
ListerUniverse ==
    << "fmt",
       "github.com/fitglue/server/src/go/functions/router",
       MODULE_PREFIX,
       MODULE_PREFIX \o "/bootstrap",
       MODULE_PREFIX \o "/infrastructure/pubsub",
       MODULE_PREFIX \o "/types/pb/events",
       MODULE_PREFIX \o "tools/gen" >>

\* the lines of ListerUniverse at the chosen places, in the lister's order
RECURSIVE Pick(_, _)
Pick(seq, keep) ==
    IF seq = <<>> THEN <<>>
    ELSE (IF Len(seq) \in keep THEN Pick(SubSeq(seq, 1, Len(seq) - 1), keep) \o <<seq[Len(seq)]>>
          ELSE Pick(SubSeq(seq, 1, Len(seq) - 1), keep))

ListerOutcomes ==
    {[ok |-> FALSE, stdout |-> <<>>]}
        \cup {[ok |-> TRUE, stdout |-> Pick(ListerUniverse, keep)] :
                keep \in SUBSET (1..Len(ListerUniverse))}

\* the packages of the shared tree src/go/pkg
SharedPackages == {"bootstrap", "infrastructure/pubsub", "types/pb/events"}

\* the Go scripts load no registry
NoRegistry == [modules |-> <<>>, import_patterns |-> <<>>]

InitGo ==
    /\ modules_config = NoRegistry
    /\ ResolveIdle
    /\ GoIdle
    /\ ArchiveIdle
    /\ MainIdle
    /\ ValidatorIdle

\* analyze_all_functions line 110: get_pkg_dependencies(fn), the lister run
\* included
GoAnalyze ==
    /\ go_pc = "idle"
    /\ \E fn \in GO_FUNCTIONS, outcome \in ListerOutcomes :
          /\ function_name' = fn
          /\ lister' = outcome
          /\ pkg_deps' = get_pkg_dependencies(outcome)
    /\ go_pc' = "analyzed"
    /\ UNCHANGED directories
    /\ UNCHANGED <<resolveVars, archiveVars, mainVars, validatorVars>>

\* get_pkg_directories on the dependencies found
GoDirectories ==
    /\ go_pc = "analyzed"
    /\ directories' = get_pkg_directories(pkg_deps.value)
    /\ go_pc' = "done"
    /\ UNCHANGED <<function_name, lister, pkg_deps>>
    /\ UNCHANGED <<resolveVars, archiveVars, mainVars, validatorVars>>

NextGo ==
    \/ GoAnalyze
    \/ GoDirectories

SpecGo == InitGo /\ [][NextGo]_vars

\* an extraction result that stands for the full shared tree
StandsForFullTree(result) ==
    result.is_none \/ SharedPackages \subseteq result.value

\* C4: whenever the lister fails for a unit, the extraction result stands for
\* the full shared tree; it is never an empty or partial dependency set.
FailSafe ==
    (go_pc # "idle" /\ ~lister.ok) => StandsForFullTree(pkg_deps)

\* C8 (get_pkg_directories): the directories hold every dependency and every
\* proper ancestor prefix of each.
GoAncestorClosure ==
    go_pc = "done" =>
        \A dep \in pkg_deps.value : dep \in directories /\ Ancestors(dep) \subseteq directories

GoAncestorWitness ==
    /\ go_pc = "done"
    /\ "types/pb/events" \in pkg_deps.value
    /\ {"types", "types/pb"} \subseteq directories

-----------------------------------------------------------------------------
(* The filesystem as the build scripts see it.  A path is the sequence of  *)
(* its names (Path.parts); a tree maps the paths of its files to bytes;    *)
(* a directory exists where a file lies below it.                          *)

\* the characters of the names used here, in code point order
CodePoints == "*-./0123456789@ABCDEFGHIJKLMNOPQRSTUVWXYZ_abcdefghijklmnopqrstuvwxyz"

Ord(c) == CHOOSE i \in 1..Len(CodePoints) : SubSeq(CodePoints, i, i) = c

\* a < b for Python strings
RECURSIVE StrLessFrom(_, _, _)
StrLessFrom(a, b, i) ==
    IF i > Len(a) THEN i <= Len(b)
    ELSE IF i > Len(b) THEN FALSE
    ELSE LET x == Ord(SubSeq(a, i, i))
             y == Ord(SubSeq(b, i, i))
         IN IF x = y THEN StrLessFrom(a, b, i + 1) ELSE x < y

StrLess(a, b) == StrLessFrom(a, b, 1)

\* mutant: the listing is used in the order the filesystem gave it
sorted_not(names) == names

\* sorted(files) and dirs.sort(): build_typescript_zips.py:203-204,
\* build_function_zips.py:153-155
RECURSIVE sorted(_)
sorted(names) ==
    IF Len(names) <= 1 THEN names
    ELSE LET x == names[Len(names)]
             rest == sorted(SubSeq(names, 1, Len(names) - 1))
             k == Cardinality({i \in 1..Len(rest) : ~StrLess(x, rest[i])})
         IN SubSeq(rest, 1, k) \o <<x>> \o SubSeq(rest, k + 1, Len(rest))

\* str.endswith
endswith(str, suffix) ==
    Len(suffix) <= Len(str) /\ SubSeq(str, Len(str) - Len(suffix) + 1, Len(str)) = suffix

\* sub in str
contains(str, sub) ==
    \E i \in 1..(Len(str) - Len(sub) + 1) : SubSeq(str, i, i + Len(sub) - 1) = sub

IsPrefix(dir, path) == Len(dir) <= Len(path) /\ SubSeq(path, 1, Len(dir)) = dir

\* the files below a directory, and a path relative to a directory
Under(tree, dir) == {path \in DOMAIN tree : Len(path) > Len(dir) /\ IsPrefix(dir, path)}
Rel(path, dir) == SubSeq(path, Len(dir) + 1, Len(path))

is_file(tree, path) == path \in DOMAIN tree
is_dir(tree, path) == Under(tree, path) # {}
exists(tree, path) == is_file(tree, path) \/ is_dir(tree, path)

\* one tree out of several whose copies of a path agree
MergeAll(trees) ==
    [path \in UNION {DOMAIN t : t \in trees} |->
        (CHOOSE t \in trees : path \in DOMAIN t)[path]]

\* the order in which the filesystem enumerates a directory: any order
RECURSIVE SomeOrder(_)
SomeOrder(names) ==
    IF names = {} THEN <<>>
    ELSE LET m == CHOOSE x \in names : \A y \in names : x = y \/ StrLess(x, y)
         IN <<m>> \o SomeOrder(names \ {m})

Scans == {"ascending", "descending", "rotated"}

scandir(names, scan) ==
    CASE scan = "ascending" -> SomeOrder(names)
      [] scan = "descending" -> Reverse(SomeOrder(names))
      [] OTHER -> IF names = {} THEN <<>> ELSE Rotate(SomeOrder(names), 1)

\* shutil.copy2: the bytes, and the source's mtime and mode in this run
copy2(tree, src, meta) == [data |-> tree[src], mtime |-> meta.clock, mode |-> meta.mode]

\* open(path, 'w').write(text): a new file of this run
written(text, meta) == [data |-> text, mtime |-> meta.clock, mode |-> 420]

-----------------------------------------------------------------------------
(* build_typescript_zips.py *)

\* line 38
EXCLUDE_PATTERNS == {"node_modules", "dist", "build", "coverage", ".DS_Store"}

\* line 95
CONFIG_FILES == {"package.json", "tsconfig.json", "jest.config.js", "jest.config.base.js"}

\* lines 62-79: copy_filtered skips every entry whose name is excluded, at
\* every level, and copies every other file to the same place below dst
copy_filtered(tree, src, dst, meta) ==
    LET keep == {path \in Under(tree, src) :
                    \A i \in 1..Len(Rel(path, src)) : Rel(path, src)[i] \notin EXCLUDE_PATTERNS}
    IN [q \in {dst \o Rel(path, src) : path \in keep} |->
            copy2(tree, src \o Rel(q, dst), meta)]

\* lines 82-113: copy_shared_modules
copy_shared_modules(tree, shared_dir, dest_dir, required_paths, meta) ==
    LET configs == [q \in {dest_dir \o <<c>> : c \in {f \in CONFIG_FILES : is_file(tree, shared_dir \o <<f>>)}} |->
                        copy2(tree, shared_dir \o Rel(q, dest_dir), meta)]
        one(rel_path) ==
            LET src_path == shared_dir \o split(rel_path, "/")
                dst_path == dest_dir \o split(rel_path, "/")
            IN IF ~exists(tree, src_path) THEN <<>>
               ELSE IF is_file(tree, src_path)
               THEN [q \in {dst_path} |-> copy2(tree, src_path, meta)]
               ELSE copy_filtered(tree, src_path, dst_path, meta)
    IN MergeAll({configs} \cup {one(rel_path) : rel_path \in required_paths})

\* analyze_ts_imports.py:168-182: the closure loop as a whole
RECURSIVE ClosureLoop(_, _, _, _)
ClosureLoop(modules, req, ch, it) ==
    IF LoopContinues(ch, it)
    THEN LET r == ScanFrom(modules, Ascending(req), 1, [required |-> req, changed |-> FALSE])
         IN ClosureLoop(modules, r.required, r.changed, it + 1)
    ELSE req

\* analyze_ts_imports.py:105-182: resolve_modules as a whole
resolve_modules(deep, symbols, config) ==
    LET import_patterns == config.import_patterns
        porder == CHOOSE o \in Permutations_(DOMAIN import_patterns) : TRUE
        bestOf == [imp \in deep \ {Barrel} |-> BestMatch(imp, porder)]
    IN ClosureLoop(config.modules,
                   DeepSeeds(deep, import_patterns, bestOf)
                       \cup BarrelSeeds(deep, symbols, import_patterns)
                       \cup AlwaysSeeds(config.modules),
                   TRUE, 0)

\* lines 192-195: the generated entry point
index_js(handler_name, output_dir) ==
    "const handler = require('./" \o handler_name \o "/" \o output_dir \o "/index');"

\* str.replace(old, new)
RECURSIVE replace(_, _, _)
replace(s, old, new) ==
    IF Len(s) < Len(old) \/ Len(old) = 0 THEN s
    ELSE IF SubSeq(s, 1, Len(old)) = old
    THEN new \o replace(SubSeq(s, Len(old) + 1, Len(s)), old, new)
    ELSE SubSeq(s, 1, 1) \o replace(SubSeq(s, 2, Len(s)), old, new)

\* str.strip(c) for a single character c
RECURSIVE rstrip(_, _)
rstrip(s, c) ==
    IF Len(s) > 0 /\ SubSeq(s, Len(s), Len(s)) = c THEN rstrip(SubSeq(s, 1, Len(s) - 1), c) ELSE s

strip(s, c) == rstrip(lstrip(s, c), c)

\* lines 159-168: 'build' unless the handler has a tsconfig.json, whose
\* outDir is then normalised; a tsconfig.json file stands for its outDir
OutputDir(tree, handler_dir) ==
    IF is_file(tree, handler_dir \o <<"tsconfig.json">>)
    THEN strip(replace(tree[handler_dir \o <<"tsconfig.json">>], "./", ""), "/")
    ELSE "build"

\* lines 120-197: what create_handler_zip puts below temp_dir
StageHandler(tree, handler_name, pruning, config, refs, meta) ==
    LET handler_dir == <<handler_name>>
        shared_dir == <<"shared">>
        handler_files == copy_filtered(tree, handler_dir, <<handler_name>>, meta)
        shared_files ==
            IF pruning /\ exists(tree, shared_dir)
            THEN LET required_modules == resolve_modules(refs.deep, refs.symbols, config)
                     required_paths == get_module_paths(required_modules, config.modules)
                 IN copy_shared_modules(tree, shared_dir, <<"shared">>, required_paths, meta)
            ELSE IF exists(tree, shared_dir)
            THEN copy_filtered(tree, shared_dir, <<"shared">>, meta)
            ELSE <<>>
        package_json == [q \in {<<"package.json">>} |->
                            written("workspaces: shared, " \o handler_name, meta)]
        lock_file == IF is_file(tree, <<"package-lock.json">>)
                     THEN [q \in {<<"package-lock.json">>} |-> copy2(tree, q, meta)]
                     ELSE <<>>
        entry_point == [q \in {<<"index.js">>} |->
                            written(index_js(handler_name, OutputDir(tree, handler_dir)), meta)]
    IN MergeAll({handler_files, shared_files, package_json, lock_file, entry_point})

-----------------------------------------------------------------------------
(* The deterministic zip: build_typescript_zips.py:199-218 and             *)
(* build_function_zips.py:147-178                                          *)

\* mutant: the entry takes the staged file's own mtime and mode
ZipEntry_file_metadata(arcname, file) ==
    [filename |-> arcname,
     date_time |-> file.mtime,
     external_attr |-> file.mode * 65536,
     compress_type |-> "ZIP_DEFLATED",
     data |-> file.data]

\* lines 211-218 / 163-178: the ZipInfo of one entry and its bytes
ZipEntry(arcname, file) ==
    [filename |-> arcname,
     date_time |-> <<1980, 1, 1, 0, 0, 0>>,
     external_attr |-> 420 * 65536,
     compress_type |-> "ZIP_DEFLATED",
     data |-> file.data]

\* os.walk(temp_dir) with the script's sorting: the files of root in sorted
\* order, then the walk of each directory of root in sorted order; skip_dirs
\* are the directory names the loop drops (build_function_zips.py:152)
RECURSIVE os_walk(_, _, _, _), WalkDirs(_, _, _, _, _, _)
os_walk(files, root, scan, skip_dirs) ==
    LET here == {path \in files : Len(path) = Len(root) + 1 /\ IsPrefix(root, path)}
        below == {path \in files : Len(path) > Len(root) + 1 /\ IsPrefix(root, path)}
        file_names == sorted(scandir({path[Len(root) + 1] : path \in here}, scan))
        dirs == sorted(SelectSeq(scandir({path[Len(root) + 1] : path \in below}, scan),
                                 LAMBDA d : d \notin skip_dirs))
    IN [i \in 1..Len(file_names) |-> root \o <<file_names[i]>>]
           \o WalkDirs(files, root, dirs, 1, scan, skip_dirs)

WalkDirs(files, root, dirs, i, scan, skip_dirs) ==
    IF i > Len(dirs) THEN <<>>
    ELSE os_walk(files, root \o <<dirs[i]>>, scan, skip_dirs)
             \o WalkDirs(files, root, dirs, i + 1, scan, skip_dirs)

\* the archive written from a staging area: one entry per file walked
WriteZip(staged, scan, skip_dirs) ==
    LET all_files == os_walk(DOMAIN staged, <<>>, scan, skip_dirs)
    IN [i \in 1..Len(all_files) |-> ZipEntry(join("/", all_files[i]), staged[all_files[i]])]

-----------------------------------------------------------------------------
(* build_function_zips.py *)

\* lines 25-57; a failed lister is CalledProcessError (45-47): None
build_get_pkg_dependencies(outcome) ==
    IF ~outcome.ok
    THEN [is_none |-> TRUE, value |-> {}]
    ELSE [is_none |-> FALSE, value |-> InternalPackages(outcome.stdout)]

\* Path.suffix: from the last dot of the name, unless it is first or last
suffix(name) ==
    LET dots == {i \in 1..Len(name) : SubSeq(name, i, i) = "."}
    IN IF dots = {} THEN ""
       ELSE LET k == CHOOSE i \in dots : \A j \in dots : j <= i
            IN IF 1 < k /\ k < Len(name) THEN SubSeq(name, k, Len(name)) ELSE ""

\* fnmatch for the patterns the scripts use: a literal name, or * and a tail
fnmatch(name, pat) ==
    IF startswith(pat, "*") THEN endswith(name, SubSeq(pat, 2, Len(pat))) ELSE name = pat

\* shutil.ignore_patterns(*patterns), asked about one name
ignore_patterns(name, patterns) == \E pat \in patterns : fnmatch(name, pat)

\* shutil.copytree(src, dst, ignore=shutil.ignore_patterns(...)): ignored
\* names are left out at every level
copytree(tree, src, dst, patterns, meta) ==
    LET keep == {path \in Under(tree, src) :
                    \A i \in 1..Len(Rel(path, src)) :
                        ~ignore_patterns(Rel(path, src)[i], patterns)}
    IN [q \in {dst \o Rel(path, src) : path \in keep} |->
            copy2(tree, src \o Rel(q, dst), meta)]

\* lines 60-88: copy_pruned_pkg
copy_pruned_pkg(tree, src_pkg, dest_pkg, needed_packages, meta) ==
    LET root_names == {path[Len(src_pkg) + 1] :
                          path \in {f \in DOMAIN tree : Len(f) = Len(src_pkg) + 1 /\ IsPrefix(src_pkg, f)}}
        root_files == [q \in {dest_pkg \o <<n>> :
                                n \in {m \in root_names : suffix(m) = ".go" /\ ~endswith(m, "_test.go")}} |->
                            copy2(tree, src_pkg \o Rel(q, dest_pkg), meta)]
        one(pkg_path) ==
            LET src_path == src_pkg \o split(pkg_path, "/")
                dest_path == dest_pkg \o split(pkg_path, "/")
            IN IF ~exists(tree, src_path) THEN <<>>
               ELSE IF is_dir(tree, src_path)
               THEN copytree(tree, src_path, dest_path, {"*_test.go"}, meta)
               ELSE [q \in {dest_path} |-> copy2(tree, src_path, meta)]
    IN MergeAll({root_files} \cup {one(pkg_path) : pkg_path \in needed_packages})

\* lines 190-191: str(src_dir) of a checkout
SRC_DIR == "/workspace/server/src/go"

\* lines 94-145: what create_function_zip puts below temp_dir
StageFunction(tree, fn, pruning, outcome, meta) ==
    LET needed_packages == IF pruning THEN build_get_pkg_dependencies(outcome)
                           ELSE [is_none |-> TRUE, value |-> {}]
        function_dir == <<"functions", fn>>
        entries == {Rel(path, function_dir) : path \in Under(tree, function_dir)}
        go_files == {e[1] : e \in {x \in entries : Len(x) = 1 /\ endswith(x[1], ".go")}}
        root_files ==
            [q \in {<<n>> : n \in {g \in go_files :
                        ~(\/ endswith(g, "_test.go")
                          \/ g = "main.go"
                          \/ contains(SRC_DIR \o "/functions/" \o fn \o "/" \o g, "cmd"))}} |->
                copy2(tree, function_dir \o q, meta)]
        subdirs == {e[1] : e \in {x \in entries : Len(x) > 1}} \ {"cmd", "__pycache__"}
        sub_files == {copytree(tree, function_dir \o <<d>>, <<"functions", fn, d>>,
                               {"*_test.go", "cmd"}, meta) : d \in subdirs}
        shared_pkg == <<"pkg">>
        pkg_files ==
            IF ~exists(tree, shared_pkg) THEN <<>>
            ELSE IF ~needed_packages.is_none
            THEN copy_pruned_pkg(tree, shared_pkg, <<"pkg">>, needed_packages.value, meta)
            ELSE copytree(tree, shared_pkg, <<"pkg">>, {"*_test.go"}, meta)
        mod_files == [q \in {<<"go.mod">>, <<"go.sum">>} |-> copy2(tree, q, meta)]
    IN MergeAll({root_files, pkg_files, mod_files} \cup sub_files)

-----------------------------------------------------------------------------
(* The source trees and environments the packaging is run on *)

\* the bytes of a source file are named after its path; a tsconfig.json is
\* its compilerOptions.outDir
TreeOf(files) ==
    [path \in files |->
        IF path[Len(path)] = "tsconfig.json" THEN "./dist/" ELSE join("/", path)]

HandlerNames == {"activities", "webhook-handler"}

TsBaseFiles(h) == {<<"package.json">>, <<h, "package.json">>, <<h, "src", "index.ts">>}
TsLockFiles == {<<"package-lock.json">>}
TsHandlerExtras(h) ==
    {<<h, "tsconfig.json">>, <<h, "src", "index.test.ts">>, <<h, "src", "lib", "helper.ts">>,
     <<h, "node_modules", "dep", "index.js">>, <<h, "build", "index.js">>}
TsSharedFiles ==
    {<<"shared", "package.json">>, <<"shared", "util.ts">>,
     <<"shared", "lib", "core", "a.ts">>, <<"shared", "lib", "core", "a.test.ts">>,
     <<"shared", "lib", "net", "b.ts">>, <<"shared", "lib", "util", "io", "c.ts">>,
     <<"shared", "node_modules", "m.js">>}

TsTrees(h) ==
    {TreeOf(TsBaseFiles(h) \cup lock \cup extras \cup shared) :
        lock \in {{}, TsLockFiles}, extras \in {{}, TsHandlerExtras(h)},
        shared \in {{}, TsSharedFiles}}

\* the registry of the specification's scenario: core, net and util
ScenarioRegistry ==
    [modules |-> MakeModules(1..3, {<<2, 1>>}, {1}), import_patterns |-> FixedPatterns]

UnitRefs ==
    {[deep |-> {}, symbols |-> {}],
     [deep |-> {"@fitglue/shared/dist/types/pb/user"}, symbols |-> {}],
     [deep |-> {}, symbols |-> {"Logger"}]}

GoBaseFiles(fn) ==
    {<<"go.mod">>, <<"go.sum">>, <<"functions", fn, "function.go">>,
     <<"pkg", "constants.go">>, <<"pkg", "bootstrap", "b.go">>,
     <<"pkg", "infrastructure", "pubsub", "ps.go">>,
     <<"pkg", "types", "pb", "events", "e.go">>}
GoFunctionExtras(fn) ==
    {<<"functions", fn, "function_test.go">>, <<"functions", fn, "main.go">>,
     <<"functions", fn, "cmd", "main.go">>, <<"functions", fn, "providers", "p.go">>,
     <<"functions", fn, "providers", "p_test.go">>}
GoPkgExtras ==
    {<<"pkg", "constants_test.go">>, <<"pkg", "README.md">>,
     <<"pkg", "bootstrap", "b_test.go">>, <<"pkg", "infrastructure", "common.go">>,
     <<"pkg", "bootstrap", "cmd", "flags.go">>}

GoTrees(fn) ==
    {TreeOf(GoBaseFiles(fn) \cup extras \cup pkgs) :
        extras \in {{}, GoFunctionExtras(fn)}, pkgs \in {{}, GoPkgExtras}}

UnitListerOutcomes ==
    {[ok |-> FALSE, stdout |-> <<>>]}
        \cup {[ok |-> TRUE, stdout |-> Pick(ListerUniverse, keep)] :
                keep \in {{}, {1, 4}, {3, 4, 5, 6}}}

\* the filesystem metadata of a run: the files' mtime and mode, and the order
\* in which directories are enumerated
Metas ==
    {[clock |-> <<2024, 3, 1, 10, 0, 0>>, mode |-> 420, scan |-> "ascending"],
     [clock |-> <<2025, 7, 9, 8, 30, 2>>, mode |-> 493, scan |-> "descending"],
     [clock |-> <<1980, 1, 1, 0, 0, 0>>, mode |-> 493, scan |-> "rotated"]}

\* the same unit is packaged twice
Runs == {1, 2}

NotStarted == [pc |-> "start", meta |-> [clock |-> <<>>, mode |-> 0, scan |-> ""],
               staged |-> <<>>, archive |-> <<>>]

InitArchive ==
    /\ ResolveIdle
    /\ GoIdle
    /\ \/ /\ builder = "ts"
          /\ modules_config = ScenarioRegistry
          /\ unit_name \in HandlerNames
          /\ src_tree \in TsTrees(unit_name)
          /\ unit_refs \in UnitRefs
          /\ unit_lister = [ok |-> TRUE, stdout |-> <<>>]
       \/ /\ builder = "go"
          /\ modules_config = NoRegistry
          /\ unit_name \in GO_FUNCTIONS
          /\ src_tree \in GoTrees(unit_name)
          /\ unit_refs = [deep |-> {}, symbols |-> {}]
          /\ unit_lister \in UnitListerOutcomes
    /\ prune \in BOOLEAN
    /\ run = [r \in Runs |-> NotStarted]
    /\ MainIdle
    /\ ValidatorIdle

\* create_handler_zip lines 120-197: the staging area is filled
HandlerStage(r) ==
    /\ builder = "ts"
    /\ run[r].pc = "start"
    /\ \E meta \in Metas :
          run' = [run EXCEPT ![r] =
                    [pc |-> "staged", meta |-> meta, archive |-> <<>>,
                     staged |-> StageHandler(src_tree, unit_name, prune, modules_config,
                                             unit_refs, meta)]]
    /\ UNCHANGED <<builder, unit_name, src_tree, prune, unit_refs, unit_lister>>
    /\ UNCHANGED <<resolveVars, goVars, mainVars, validatorVars>>

\* create_handler_zip lines 199-218: the archive is written
HandlerZip(r) ==
    /\ builder = "ts"
    /\ run[r].pc = "staged"
    /\ run' = [run EXCEPT ![r].pc = "zipped",
                          ![r].archive = WriteZip(run[r].staged, run[r].meta.scan, {})]
    /\ UNCHANGED <<builder, unit_name, src_tree, prune, unit_refs, unit_lister>>
    /\ UNCHANGED <<resolveVars, goVars, mainVars, validatorVars>>

\* create_handler_zip line 221: shutil.rmtree(temp_dir)
HandlerCleanup(r) ==
    /\ builder = "ts"
    /\ run[r].pc = "zipped"
    /\ run' = [run EXCEPT ![r].pc = "done", ![r].staged = <<>>]
    /\ UNCHANGED <<builder, unit_name, src_tree, prune, unit_refs, unit_lister>>
    /\ UNCHANGED <<resolveVars, goVars, mainVars, validatorVars>>

\* create_function_zip lines 94-145: the staging area is filled
FunctionStage(r) ==
    /\ builder = "go"
    /\ run[r].pc = "start"
    /\ \E meta \in Metas :
          run' = [run EXCEPT ![r] =
                    [pc |-> "staged", meta |-> meta, archive |-> <<>>,
                     staged |-> StageFunction(src_tree, unit_name, prune, unit_lister, meta)]]
    /\ UNCHANGED <<builder, unit_name, src_tree, prune, unit_refs, unit_lister>>
    /\ UNCHANGED <<resolveVars, goVars, mainVars, validatorVars>>

\* create_function_zip lines 147-178: the archive is written
FunctionZip(r) ==
    /\ builder = "go"
    /\ run[r].pc = "staged"
    /\ run' = [run EXCEPT ![r].pc = "zipped",
                          ![r].archive = WriteZip(run[r].staged, run[r].meta.scan, {"cmd"})]
    /\ UNCHANGED <<builder, unit_name, src_tree, prune, unit_refs, unit_lister>>
    /\ UNCHANGED <<resolveVars, goVars, mainVars, validatorVars>>

\* create_function_zip line 181: shutil.rmtree(temp_dir)
FunctionCleanup(r) ==
    /\ builder = "go"
    /\ run[r].pc = "zipped"
    /\ run' = [run EXCEPT ![r].pc = "done", ![r].staged = <<>>]
    /\ UNCHANGED <<builder, unit_name, src_tree, prune, unit_refs, unit_lister>>
    /\ UNCHANGED <<resolveVars, goVars, mainVars, validatorVars>>

NextArchive ==
    \/ \E r \in Runs : HandlerStage(r)
    \/ \E r \in Runs : HandlerZip(r)
    \/ \E r \in Runs : HandlerCleanup(r)
    \/ \E r \in Runs : FunctionStage(r)
    \/ \E r \in Runs : FunctionZip(r)
    \/ \E r \in Runs : FunctionCleanup(r)

SpecArchive == InitArchive /\ [][NextArchive]_vars

-----------------------------------------------------------------------------
(* Claims about the archive *)

Written(r) == run[r].pc \in {"zipped", "done"}

\* the entries of an archive, as paths
EntryPaths(r) == {split(run[r].archive[i].filename, "/") : i \in 1..Len(run[r].archive)}

\* C23: the entries of a unit's archive are the files staged for the unit:
\* every staged file, at any depth, is exactly one entry, and every entry is
\* a staged file, for functions as for handlers.
ArchiveEqualsStaged ==
    \A r \in Runs :
        run[r].pc = "zipped" =>
            /\ EntryPaths(r) = DOMAIN run[r].staged
            /\ Len(run[r].archive) = Cardinality(DOMAIN run[r].staged)

\* the place of a path in the sorted traversal: at the first name where two
\* paths part, a file of that directory comes before its subdirectories, and
\* otherwise the smaller name comes first
PartAt(p, q) == CHOOSE k \in 1..Len(p) : (k > Len(q) \/ p[k] # q[k]) /\ \A j \in 1..(k - 1) : p[j] = q[j]

WalkBefore(p, q) ==
    LET k == PartAt(p, q)
    IN IF Len(p) = k /\ Len(q) > k THEN TRUE
       ELSE IF Len(q) = k /\ Len(p) > k THEN FALSE
       ELSE StrLess(p[k], q[k])

\* C9: two runs of the same unit over the same files, whatever the mtimes and
\* enumeration orders of each, write the same sequence of entries, and each
\* entry comes before the next one in sorted traversal order.
ArchiveDeterminism ==
    /\ (Written(1) /\ Written(2)) => run[1].archive = run[2].archive
    /\ \A r \in Runs : Written(r) =>
          \A i \in 1..(Len(run[r].archive) - 1) :
              WalkBefore(split(run[r].archive[i].filename, "/"),
                         split(run[r].archive[i + 1].filename, "/"))

ArchiveDeterminismWitness ==
    /\ Written(1) /\ Written(2)
    /\ run[1].meta.scan # run[2].meta.scan
    /\ run[1].meta.clock # run[2].meta.clock
    /\ Len(run[1].archive) >= 6
    /\ run[1].archive = run[2].archive

\* C10: every entry of every archive carries the fixed timestamp, the fixed
\* permission bits and the same compression method, whatever the staged
\* file's mtime and mode.
FixedEntryMetadata ==
    \A r \in Runs : \A i \in 1..Len(run[r].archive) :
        /\ run[r].archive[i].date_time = <<1980, 1, 1, 0, 0, 0>>
        /\ run[r].archive[i].external_attr = 420 * 65536
        /\ run[r].archive[i].compress_type = "ZIP_DEFLATED"

FixedEntryMetadataWitness ==
    \E r \in Runs :
        /\ run[r].pc = "zipped"
        /\ Len(run[r].archive) >= 6
        /\ \A path \in DOMAIN run[r].staged :
              run[r].staged[path].mode = 493 /\ run[r].staged[path].mtime # <<1980, 1, 1, 0, 0, 0>>

-----------------------------------------------------------------------------
(* Claims about the closure loop's run, the staging and the extraction *)

\* what is left of a call of analyze_handler: the steps after the loop, and
\* the iterations the ceiling still allows
ClosureMeasure ==
    (CASE pc = "idle" -> 3 [] pc = "closure" -> 2 [] pc = "returned" -> 1 [] OTHER -> 0)
        * (max_iterations + 1) + (max_iterations - iterations)

\* the guards of the steps of analyze_handler: some step can be taken
StepEnabled ==
    CASE pc = "idle" -> RefSets # {} /\ SymbolSets # {}
      [] pc = "closure" -> \/ LoopContinues(changed, iterations) /\ Orders(required) # {}
                           \/ ~LoopContinues(changed, iterations)
      [] pc = "returned" -> TRUE
      [] OTHER -> FALSE

\* C18: the closure loop terminates for every registry, cyclic and
\* self-referential ones included: the call stops nowhere before its end, and
\* every step decreases a natural number; the required set only gains
\* members; an iteration that adds nothing clears the flag, and no iteration
\* follows it.
ClosureTerminates ==
    /\ [](pc = "done" \/ StepEnabled)
    /\ [](ClosureMeasure >= 0)
    /\ [][ClosureMeasure' < ClosureMeasure]_vars
    /\ [][required \subseteq required']_vars
    /\ [][(pc = "closure" /\ iterations' = iterations + 1 /\ required' = required)
            => ~changed']_vars
    /\ [][(pc = "closure" /\ ~changed) => (iterations' = iterations /\ pc' = "returned")]_vars

ClosureTerminatesWitness ==
    /\ Returned
    /\ ~changed
    /\ iterations >= 2
    /\ \E m \in required : m \in ReachableFrom(DependsOn(m))

\* a test file of the TypeScript or of the Go sources
IsTestFile(name) ==
    endswith(name, "_test.go") \/ endswith(name, ".test.ts") \/ endswith(name, ".spec.ts")

\* a staged path that comes from the unit's cmd subtree
FromUnitCmd(path) ==
    /\ builder = "go"
    /\ IsPrefix(<<"functions", unit_name>>, path)
    /\ "cmd" \in Range(path)

\* C17: no test file and no file of the unit's cmd subtree is staged or
\* written to the archive, for handlers and functions, pruned or not.
StagingExclusions ==
    \A r \in Runs :
        /\ \A path \in DOMAIN run[r].staged :
              ~IsTestFile(path[Len(path)]) /\ ~FromUnitCmd(path)
        /\ \A i \in 1..Len(run[r].archive) :
              LET path == split(run[r].archive[i].filename, "/")
              IN ~IsTestFile(path[Len(path)]) /\ ~FromUnitCmd(path)

\* the import paths of the lister's output that lie under the shared root,
\* relative to it
PrefixSlash == MODULE_PREFIX \o "/"

UnderSharedRoot(line) == startswith(line, PrefixSlash) /\ Len(line) > Len(PrefixSlash)

\* C20: get_pkg_dependencies retains exactly the import paths under the shared
\* root (prefix, '/', non-empty rest), each with the prefix stripped: not the
\* root itself, and no path that only begins with the prefix's characters.
ExactExtraction ==
    (go_pc # "idle" /\ lister.ok) =>
        pkg_deps.value =
            {SubSeq(line, Len(PrefixSlash) + 1, Len(line)) :
                line \in {l \in Range(lister.stdout) : UnderSharedRoot(l)}}

-----------------------------------------------------------------------------
(* main() of build_typescript_zips.py (227-276) and of                     *)
(* build_function_zips.py (186-223): a run over several units              *)

\* build_typescript_zips.py:35
EXCLUDED_DIRS == {"shared", "admin-cli", "mcp-server", "node_modules", "parkrun-fetcher"}

\* lines 44-51: the directories of ts_src_dir that hold a package.json
get_handler_dirs(tree) ==
    LET items == {path[1] : path \in {f \in DOMAIN tree : Len(f) > 1}}
    IN SelectSeq(sorted(SomeOrder(items)),
                 LAMBDA name : name \notin EXCLUDED_DIRS /\ is_file(tree, <<name, "package.json">>))

\* lines 121-122 / 106-107: the unit's staging directory and archive, below
\* output_dir
temp_dir_shared(name) == "staging_temp"

temp_dir(name) == name \o "_temp"

zip_path(name) == name \o ".zip"

\* what a call of resolve_modules, get_module_paths and copy_shared_modules
\* leaves in the registry object it was given: they read it (.get, iteration,
\* membership) and write to their own sets only
registry_after_consumed(config, required_modules) ==
    [config EXCEPT !.modules =
        [m \in DOMAIN config.modules |->
            IF m \in required_modules
            THEN [config.modules[m] EXCEPT !.depends_on = {}]
            ELSE config.modules[m]]]

registry_after(config, required_modules) == config

\* the handler directories a checkout may hold
HandlerUniverse == {"activities", "activities_temp", "webhook-handler"}

MainTsTrees ==
    {TreeOf({<<"package.json">>, <<"docs", "readme.md">>} \cup TsSharedFiles
                \cup UNION {TsBaseFiles(h) : h \in H}) : H \in SUBSET HandlerUniverse}

\* lines 205-218: the functions main() lists, the first three of them
GoFunctionList == <<"router", "enricher", "pipeline-splitter">>

MainGoTree == TreeOf(UNION {GoBaseFiles(GoFunctionList[i]) : i \in 1..Len(GoFunctionList)})

\* the references get_handler_imports finds in a handler
HandlerRefs(h) ==
    IF h = "webhook-handler"
    THEN [deep |-> {"@fitglue/shared/dist/types/pb/user"}, symbols |-> {}]
    ELSE [deep |-> {"@fitglue/shared/dist/types/events"}, symbols |-> {"Logger"}]

MainMeta == [clock |-> <<2024, 3, 1, 10, 0, 0>>, mode |-> 420, scan |-> "ascending"]

MainLister == [ok |-> TRUE, stdout |-> Pick(ListerUniverse, {1, 4})]

Queued == [pc |-> "queued", resolved |-> {}]

\* what an earlier run left in the output directory: nothing, or the archive
\* of a unit
EarlierOutputs == {{}, {<<zip_path("activities")>>}, {<<zip_path("router")>>}}

InitMain ==
    /\ ResolveIdle
    /\ GoIdle
    /\ ValidatorIdle
    /\ builder = "none"
    /\ unit_name = ""
    /\ prune = TRUE
    /\ unit_refs = [deep |-> {}, symbols |-> {}]
    /\ unit_lister = [ok |-> TRUE, stdout |-> <<>>]
    /\ run = <<>>
    /\ modules_config = NoRegistry
    /\ config_loaded = FALSE
    /\ ENABLE_PRUNING \in BOOLEAN
    /\ \/ /\ script = "ts"
          /\ src_tree \in MainTsTrees
          /\ config_file \in {[ok |-> TRUE, value |-> ScenarioRegistry, state |-> "unread"],
                              [ok |-> FALSE, value |-> NoRegistry, state |-> "unread"]}
       \/ /\ script = "go"
          /\ src_tree = MainGoTree
          /\ config_file = [ok |-> FALSE, value |-> NoRegistry, state |-> "unread"]
    /\ main_pc = "start"
    /\ units = <<>>
    /\ task = <<>>
    /\ touched = <<>>
    /\ zips_dir \in EarlierOutputs
    /\ exit_code = -1

MainFrame == UNCHANGED <<resolveVars, goVars, archiveVars, validatorVars>>

UnitSet == Range(units)

\* build_typescript_zips.py:228-254: the flag, the registry, the handlers,
\* the output directory
TsMainLoad ==
    /\ script = "ts"
    /\ main_pc = "start"
    /\ IF ENABLE_PRUNING
       THEN IF config_file.ok
            THEN /\ modules_config' = config_file.value
                 /\ config_loaded' = TRUE
                 /\ config_file' = [config_file EXCEPT !.state = "loaded"]
                 /\ UNCHANGED ENABLE_PRUNING
            ELSE /\ ENABLE_PRUNING' = FALSE
                 /\ config_file' = [config_file EXCEPT !.state = "failed"]
                 /\ UNCHANGED <<modules_config, config_loaded>>
       ELSE UNCHANGED <<modules_config, config_loaded, config_file, ENABLE_PRUNING>>
    /\ units' = get_handler_dirs(src_tree)
    /\ task' = [u \in Range(get_handler_dirs(src_tree)) |-> Queued]
    /\ touched' = [u \in Range(get_handler_dirs(src_tree)) |-> {}]
    /\ main_pc' = "loaded"
    /\ UNCHANGED <<script, zips_dir, exit_code>>
    /\ UNCHANGED <<deep_imports, barrel_symbols, best, required, changed, iterations, paths, pc>>
    /\ UNCHANGED <<goVars, archiveVars, validatorVars>>

\* lines 257-265: the pool is created and every handler submitted;
\* ThreadPoolExecutor(max_workers=0) raises ValueError
TsMainSubmit ==
    /\ script = "ts"
    /\ main_pc = "loaded"
    /\ IF Len(units) = 0
       THEN main_pc' = "exited" /\ exit_code' = 1
       ELSE main_pc' = "running" /\ UNCHANGED exit_code
    /\ UNCHANGED <<script, ENABLE_PRUNING, config_loaded, config_file, units, task,
                   touched, zips_dir>>
    /\ MainFrame

\* the paths of the output directory below a directory
Below(files, dir) == {path \in files : IsPrefix(dir, path)}

\* create_handler_zip lines 120-127, in a worker thread: the staging
\* directory is removed if it exists, and created
TaskBegin(u) ==
    /\ script = "ts"
    /\ main_pc = "running"
    /\ task[u].pc = "queued"
    /\ task' = [task EXCEPT ![u].pc = "staging"]
    /\ touched' = [touched EXCEPT ![u] = @ \cup {<<temp_dir(u)>>}]
    /\ zips_dir' = (zips_dir \ Below(zips_dir, <<temp_dir(u)>>)) \cup {<<temp_dir(u)>>}
    /\ UNCHANGED <<script, main_pc, ENABLE_PRUNING, config_loaded, config_file, units,
                   exit_code>>
    /\ MainFrame

\* create_handler_zip lines 129-197: the handler, the shared modules it
\* resolves against the shared registry, and the generated files are staged
TaskStage(u) ==
    /\ script = "ts"
    /\ main_pc = "running"
    /\ task[u].pc = "staging"
    /\ LET pruning == ENABLE_PRUNING /\ config_loaded
           staged == StageHandler(src_tree, u, pruning, modules_config, HandlerRefs(u), MainMeta)
           resolved == IF pruning /\ exists(src_tree, <<"shared">>)
                       THEN resolve_modules(HandlerRefs(u).deep, HandlerRefs(u).symbols,
                                            modules_config)
                       ELSE {}
           files == {<<temp_dir(u)>> \o path : path \in DOMAIN staged}
       IN /\ task' = [task EXCEPT ![u] = [pc |-> "staged", resolved |-> resolved]]
          /\ touched' = [touched EXCEPT ![u] = @ \cup files]
          /\ zips_dir' = zips_dir \cup files
          /\ modules_config' = registry_after(modules_config, resolved)
    /\ UNCHANGED <<script, main_pc, ENABLE_PRUNING, config_loaded, config_file, units,
                   exit_code>>
    /\ UNCHANGED <<deep_imports, barrel_symbols, best, required, changed, iterations, paths, pc>>
    /\ UNCHANGED <<goVars, archiveVars, validatorVars>>

\* create_handler_zip lines 199-218: the archive is written
TaskZip(u) ==
    /\ script = "ts"
    /\ main_pc = "running"
    /\ task[u].pc = "staged"
    /\ task' = [task EXCEPT ![u].pc = "zipped"]
    /\ touched' = [touched EXCEPT ![u] = @ \cup {<<zip_path(u)>>}]
    /\ zips_dir' = zips_dir \cup {<<zip_path(u)>>}
    /\ UNCHANGED <<script, main_pc, ENABLE_PRUNING, config_loaded, config_file, units,
                   exit_code>>
    /\ MainFrame

\* create_handler_zip lines 220-224: the staging directory is removed
TaskCleanup(u) ==
    /\ script = "ts"
    /\ main_pc = "running"
    /\ task[u].pc = "zipped"
    /\ task' = [task EXCEPT ![u].pc = "done"]
    /\ zips_dir' = zips_dir \ Below(zips_dir, <<temp_dir(u)>>)
    /\ UNCHANGED <<script, main_pc, ENABLE_PRUNING, config_loaded, config_file, units,
                   touched, exit_code>>
    /\ MainFrame

\* a copy, a write or a removal of the task's next step raises: the future
\* holds the exception, which lines 269-274 catch and print; when the step is
\* the writing of the archive (lines 199-218), ZipFile(zip_path, 'w') may
\* have created the file before a read or a write raises
TaskFail(u) ==
    /\ script = "ts"
    /\ main_pc = "running"
    /\ task[u].pc \in {"queued", "staging", "staged", "zipped"}
    /\ task' = [task EXCEPT ![u].pc = "failed"]
    /\ \/ UNCHANGED <<touched, zips_dir>>
       \/ /\ task[u].pc = "staged"
          /\ touched' = [touched EXCEPT ![u] = @ \cup {<<zip_path(u)>>}]
          /\ zips_dir' = zips_dir \cup {<<zip_path(u)>>}
    /\ UNCHANGED <<script, main_pc, ENABLE_PRUNING, config_loaded, config_file, units,
                   exit_code>>
    /\ MainFrame

\* lines 267-280: every future has completed; main() returns
TsMainCollect ==
    /\ script = "ts"
    /\ main_pc = "running"
    /\ \A u \in UnitSet : task[u].pc \in {"done", "failed"}
    /\ main_pc' = "exited"
    /\ exit_code' = 0
    /\ UNCHANGED <<script, ENABLE_PRUNING, config_loaded, config_file, units, task,
                   touched, zips_dir>>
    /\ MainFrame

\* build_function_zips.py:188-218: the output directory is removed and
\* created, the functions are listed
GoMainStart ==
    /\ script = "go"
    /\ main_pc = "start"
    /\ units' = GoFunctionList
    /\ task' = [u \in Range(GoFunctionList) |-> Queued]
    /\ touched' = [u \in Range(GoFunctionList) |-> {}]
    /\ zips_dir' = {}
    /\ main_pc' = "running"
    /\ UNCHANGED <<script, ENABLE_PRUNING, config_loaded, config_file, exit_code>>
    /\ MainFrame

\* the function the loop of line 220 is at
IsNext(u) ==
    \E i \in 1..Len(units) :
        /\ units[i] = u
        /\ task[u].pc = "queued"
        /\ \A j \in 1..(i - 1) : task[units[j]].pc = "done"

\* line 221: create_function_zip(function_name, ...) runs to its end
FunctionRun(u) ==
    /\ script = "go"
    /\ main_pc = "running"
    /\ IsNext(u)
    /\ LET staged == StageFunction(src_tree, u, ENABLE_PRUNING, MainLister, MainMeta)
           files == {<<temp_dir(u)>> \o path : path \in DOMAIN staged}
       IN /\ touched' = [touched EXCEPT ![u] = {<<temp_dir(u)>>, <<zip_path(u)>>} \cup files]
          /\ zips_dir' = zips_dir \cup {<<zip_path(u)>>}
    /\ task' = [task EXCEPT ![u].pc = "done"]
    /\ UNCHANGED <<script, main_pc, ENABLE_PRUNING, config_loaded, config_file, units,
                   exit_code>>
    /\ MainFrame

\* line 221: a copy or a write in create_function_zip raises, the archive
\* created or not by then (line 148); nothing in main() catches it, the
\* script ends with the traceback's status
FunctionRaise(u) ==
    /\ script = "go"
    /\ main_pc = "running"
    /\ IsNext(u)
    /\ task' = [task EXCEPT ![u].pc = "failed"]
    /\ \E partial \in SUBSET {<<zip_path(u)>>} :
          /\ touched' = [touched EXCEPT ![u] = {<<temp_dir(u)>>} \cup partial]
          /\ zips_dir' = zips_dir \cup {<<temp_dir(u)>>} \cup partial
    /\ main_pc' = "exited"
    /\ exit_code' = 1
    /\ UNCHANGED <<script, ENABLE_PRUNING, config_loaded, config_file, units>>
    /\ MainFrame

\* lines 223-226: the loop is over; main() returns
GoMainExit ==
    /\ script = "go"
    /\ main_pc = "running"
    /\ \A u \in UnitSet : task[u].pc = "done"
    /\ main_pc' = "exited"
    /\ exit_code' = 0
    /\ UNCHANGED <<script, ENABLE_PRUNING, config_loaded, config_file, units, task,
                   touched, zips_dir>>
    /\ MainFrame

NextMain ==
    \/ TsMainLoad
    \/ TsMainSubmit
    \/ \E u \in UnitSet : TaskBegin(u)
    \/ \E u \in UnitSet : TaskStage(u)
    \/ \E u \in UnitSet : TaskZip(u)
    \/ \E u \in UnitSet : TaskCleanup(u)
    \/ \E u \in UnitSet : TaskFail(u)
    \/ TsMainCollect
    \/ GoMainStart
    \/ \E u \in UnitSet : FunctionRun(u)
    \/ \E u \in UnitSet : FunctionRaise(u)
    \/ GoMainExit

SpecMain == InitMain /\ [][NextMain]_vars

-----------------------------------------------------------------------------
(* Claims about a run over several units *)

Exited == main_pc = "exited"

Failed(u) == task[u].pc = "failed"

Started(u) == task[u].pc # "queued"

\* the archives in the output directory
Archives == {path \in zips_dir : Len(path) = 1 /\ endswith(path[1], ".zip")}

\* the staging directories and staged files in the output directory
StagingLeft(u) == Below(zips_dir, <<temp_dir(u)>>)

\* C11: a failure of one unit's pipeline does not prevent any other unit's
\* pipeline from being started and run to its own outcome: when the run is
\* over, every unit has succeeded or failed, for handlers and for functions.
FailureIsolation ==
    (Exited /\ \E u \in UnitSet : Failed(u)) =>
        \A v \in UnitSet : task[v].pc \in {"done", "failed"}

\* C12: the exit status of a run is non-zero if and only if at least one
\* unit's pipeline failed.
ExitReflectsFailures ==
    Exited => (exit_code # 0 <=> \E u \in UnitSet : Failed(u))

\* C13: if loading the registry fails, the run aborts before any unit is
\* processed: no pipeline starts and no archive is written.
RegistryFailureAborts ==
    config_file.state = "failed" =>
        /\ \A u \in UnitSet : ~Started(u)
        /\ \A u \in UnitSet : <<zip_path(u)>> \notin touched[u]

\* two paths meet when they are the same or one lies below the other
Meet(p, q) == IsPrefix(p, q) \/ IsPrefix(q, p)

\* C14: under every interleaving no two tasks create, write or delete the
\* same path: staging directories and archives are each task's own.
StagingIsolation ==
    \A u \in UnitSet : \A v \in UnitSet \ {u} :
        \A p \in touched[u] : \A q \in touched[v] : ~Meet(p, q)

StagingIsolationWitness ==
    /\ script = "ts"
    /\ {"activities", "activities_temp"} \subseteq UnitSet
    /\ task["activities"].pc = "staged" /\ task["activities_temp"].pc = "staged"
    /\ Cardinality(touched["activities"]) >= 4
    /\ Cardinality(touched["activities_temp"]) >= 4

\* C19: the registry is read-only after loading: whatever the tasks do and in
\* whatever order, the shared registry stays as loaded, and every task has
\* resolved against the registry as loaded.
RegistryReadOnly ==
    config_file.state = "loaded" =>
        /\ modules_config = config_file.value
        /\ \A u \in UnitSet :
              task[u].pc \in {"staged", "zipped", "done"} =>
                  task[u].resolved = resolve_modules(HandlerRefs(u).deep, HandlerRefs(u).symbols,
                                                     config_file.value)

RegistryReadOnlyWitness ==
    /\ config_file.state = "loaded"
    /\ {"activities", "webhook-handler"} \subseteq UnitSet
    /\ task["activities"].pc = "zipped" /\ task["webhook-handler"].pc = "staged"
    /\ task["activities"].resolved = {1, 2}
    /\ task["webhook-handler"].resolved = {1, 3}

\* C22: after a run has ended, the output directory holds the archive of a
\* unit only if the unit's pipeline succeeded in this run, and a unit whose
\* pipeline failed has left no staging directory behind.
OnlySucceededArchives ==
    Exited =>
        \A u \in UnitSet :
            /\ <<zip_path(u)>> \in Archives => task[u].pc = "done"
            /\ Failed(u) => StagingLeft(u) = {}

-----------------------------------------------------------------------------
(* validate_shared_modules.py *)

\* the items of a set as a list, in dict or list order
ListOf(S) == SomeOrder(S)

\* a list comprehension over a list of module IDs
RECURSIVE Concat(_)
Concat(lists) == IF lists = <<>> THEN <<>> ELSE Head(lists) \o Concat(Tail(lists))

\* lines 48-54: every path a module declares
get_defined_paths(config) ==
    UNION {config.modules[m].paths : m \in DOMAIN config.modules}

\* mutant: a declared path must be a file
validate_paths_exist_files_only(config, tree) ==
    LET of(m) == LET ps == ListOf({path \in config.modules[m].paths :
                                       ~is_file(tree, split(path, "/"))})
                 IN [i \in 1..Len(ps) |-> [kind |-> "path", module |-> m, path |-> ps[i]]]
        mods == Ascending(DOMAIN config.modules)
    IN Concat([i \in 1..Len(mods) |-> of(mods[i])])

\* lines 114-124: a declared path that does not exist below shared_dir
validate_paths_exist(config, tree) ==
    LET of(m) == LET ps == ListOf({path \in config.modules[m].paths :
                                       ~exists(tree, split(path, "/"))})
                 IN [i \in 1..Len(ps) |-> [kind |-> "path", module |-> m, path |-> ps[i]]]
        mods == Ascending(DOMAIN config.modules)
    IN Concat([i \in 1..Len(mods) |-> of(mods[i])])

\* mutant: the membership test of line 134 is lost
validate_dependencies_exist_none(config) == <<>>

\* lines 127-137: a depends_on entry that is no module name
validate_dependencies_exist(config) ==
    LET module_names == DOMAIN config.modules
        of(m) == LET ds == Ascending(config.modules[m].depends_on \ module_names)
                 IN [i \in 1..Len(ds) |-> [kind |-> "dependency", module |-> m, dep |-> ds[i]]]
        mods == Ascending(module_names)
    IN Concat([i \in 1..Len(mods) |-> of(mods[i])])

\* mutant: the check of the import patterns is lost
validate_import_patterns_none(config) == <<>>

\* lines 140-152: an import pattern that names no module
validate_import_patterns(config) ==
    LET module_names == DOMAIN config.modules
        of(pattern) ==
            LET ms == Ascending(PatternModules(config.import_patterns[pattern]) \ module_names)
            IN [i \in 1..Len(ms) |-> [kind |-> "pattern", pattern |-> pattern, module |-> ms[i]]]
        patterns == ListOf(DOMAIN config.import_patterns)
    IN Concat([i \in 1..Len(patterns) |-> of(patterns[i])])

\* str.lstrip(chars): leading characters of the set are dropped
RECURSIVE lstrip_chars(_, _)
lstrip_chars(str, chars) ==
    IF Len(str) > 0 /\ SubSeq(str, 1, 1) \in chars
    THEN lstrip_chars(SubSeq(str, 2, Len(str)), chars)
    ELSE str

\* lines 184-188: the barrel file of an export subpath
barrel_dir(subpath) == "src/" \o lstrip_chars(subpath, {".", "/"})

\* lines 155-214: an export of package.json whose barrel file is on disk and
\* in no module's paths
validate_barrel_exports(config, tree, package) ==
    IF ~package.present THEN <<>>
    ELSE LET defined_paths == get_defined_paths(config)
             uncovered(subpath) ==
                 /\ subpath # "."
                 /\ ~contains(subpath, "*")
                 /\ exists(tree, split(barrel_dir(subpath) \o "/index.ts", "/"))
                 /\ (barrel_dir(subpath) \o "/index.ts") \notin defined_paths
                 /\ barrel_dir(subpath) \notin defined_paths
             subpaths == ListOf({k \in DOMAIN package.exports : uncovered(k)})
         IN [i \in 1..Len(subpaths) |-> [kind |-> "export", subpath |-> subpaths[i]]]

\* lines 217-248: top-level directories of shared/src, and the directories
\* of src/integrations, that no declared path covers
find_uncovered_directories(config, tree) ==
    LET defined_paths == get_defined_paths(config)
        covered(dir_path) ==
            \E path \in defined_paths : path = dir_path \/ startswith(path, dir_path \o "/")
        dirs_of(dir) == {path[Len(dir) + 1] :
                            path \in {f \in DOMAIN tree : Len(f) > Len(dir) + 1 /\ IsPrefix(dir, f)}}
        visible(names) == {n \in names : ~startswith(n, ".")}
        top == sorted(ListOf(visible(dirs_of(<<"src">>))))
        of(name) ==
            (IF covered("src/" \o name) THEN <<>>
             ELSE <<[kind |-> "directory", path |-> "src/" \o name]>>)
            \o (IF name # "integrations" THEN <<>>
                ELSE LET subs == sorted(ListOf(visible(dirs_of(<<"src", name>>))))
                     IN SelectSeq([i \in 1..Len(subs) |->
                                      [kind |-> "integration",
                                       path |-> "src/" \o name \o "/" \o subs[i]]],
                                  LAMBDA w : ~covered(w.path)))
    IN Concat([i \in 1..Len(top) |-> of(top[i])])

\* the shared directory of a checkout: shared/src is there, with the domain
\* barrel; the other directories come and go
SharedBase ==
    {<<"src", "index.ts">>, <<"src", "domain", "index.ts">>, <<"src", "domain", "models.ts">>}

SharedTrees ==
    {TreeOf(SharedBase \cup infra \cup integ) :
        infra \in {{}, {<<"src", "infrastructure", "index.ts">>}},
        integ \in {{}, {<<"src", "integrations", "strava", "client.ts">>}}}

\* shared/package.json and its exports
SharedPackages_ ==
    {[present |-> FALSE, exports |-> <<>>],
     [present |-> TRUE,
      exports |-> ("." :> [types |-> "./dist/index.d.ts"])
                  @@ ("./domain" :> [types |-> "./dist/domain/index.d.ts"])
                  @@ ("./dist/*" :> [types |-> "./dist/*.d.ts"])],
     [present |-> TRUE,
      exports |-> ("./domain" :> [types |-> "./dist/domain/index.d.ts"])
                  @@ ("./infrastructure" :> [types |-> "./dist/infrastructure/index.d.ts"])]}

\* the registries the validator is run on: two modules, their paths, any
\* dependency relation of at most MaxEdges edges (targets 0 and 3 are not
\* defined), patterns that name defined and undefined modules
ValidatorPaths ==
    {<<p1, p2>> :
        p1 \in {{"src/domain"}, {"src/domain/index.ts", "src/domain/models.ts"}, {"src/gone"}},
        p2 \in {{"src/infrastructure"}, {"src/integrations/strava"}}}

ValidatorEdges == {E \in SUBSET ((1..2) \X (0..3)) : Cardinality(E) <= MaxEdges}

ValidatorPatterns ==
    {<<>>,
     (Barrel :> [list |-> <<1, 2>>]) @@ (PTypes :> [scalar |-> 2]),
     (Barrel :> [list |-> <<1>>]) @@ (PTypes :> [scalar |-> 3]),
     (Barrel :> [list |-> <<0, 1>>])}

ValidatorRegistries ==
    {[modules |-> [i \in 1..2 |-> [paths |-> P[i],
                                   depends_on |-> {e[2] : e \in {x \in E : x[1] = i}},
                                   always_include |-> FALSE]],
      import_patterns |-> ip] :
        P \in ValidatorPaths, E \in ValidatorEdges, ip \in ValidatorPatterns}

InitValidator ==
    /\ ResolveIdle
    /\ GoIdle
    /\ ArchiveIdle
    /\ modules_config = NoRegistry
    /\ script = "none"
    /\ main_pc = "start"
    /\ ENABLE_PRUNING = TRUE
    /\ config_loaded = FALSE
    /\ config_file \in {[ok |-> FALSE, value |-> NoRegistry, state |-> "unread"]}
                          \cup {[ok |-> TRUE, value |-> r, state |-> "unread"] :
                                   r \in ValidatorRegistries}
    /\ units = <<>>
    /\ task = <<>>
    /\ touched = <<>>
    /\ zips_dir = {}
    /\ exit_code = -1
    /\ v_pc = "start"
    /\ shared_fs \in SharedTrees
    /\ shared_package \in SharedPackages_
    /\ all_errors = <<>>
    /\ all_warnings = <<>>
    /\ report = [errors |-> <<>>, warnings |-> <<>>]
    /\ validator_exit = -1

ValidatorFrame ==
    /\ UNCHANGED <<deep_imports, barrel_symbols, best, required, changed, iterations, paths, pc>>
    /\ UNCHANGED <<goVars, archiveVars>>
    /\ UNCHANGED <<script, main_pc, ENABLE_PRUNING, config_loaded, units, task, touched,
                   zips_dir, exit_code>>

\* main() lines 260-270: the registry is loaded, or the validator exits with 1
ValidatorLoad ==
    /\ v_pc = "start"
    /\ IF config_file.ok
       THEN /\ modules_config' = config_file.value
            /\ config_file' = [config_file EXCEPT !.state = "loaded"]
            /\ v_pc' = "loaded"
            /\ UNCHANGED validator_exit
       ELSE /\ config_file' = [config_file EXCEPT !.state = "failed"]
            /\ v_pc' = "exited"
            /\ validator_exit' = 1
            /\ UNCHANGED modules_config
    /\ UNCHANGED <<shared_fs, shared_package, all_errors, all_warnings, report>>
    /\ ValidatorFrame

\* main() lines 274-296: the four checks and the scan for warnings
ValidatorCheck ==
    /\ v_pc = "loaded"
    /\ all_errors' = validate_paths_exist(modules_config, shared_fs)
                        \o validate_dependencies_exist(modules_config)
                        \o validate_import_patterns(modules_config)
                        \o validate_barrel_exports(modules_config, shared_fs, shared_package)
    /\ all_warnings' = find_uncovered_directories(modules_config, shared_fs)
    /\ v_pc' = "checked"
    /\ UNCHANGED <<modules_config, config_file, shared_fs, shared_package, report,
                   validator_exit>>
    /\ ValidatorFrame

\* main() lines 298-326: the lists are printed; exit 1 if there are errors,
\* else exit 0
ValidatorReport ==
    /\ v_pc = "checked"
    /\ report' = [errors |-> all_errors, warnings |-> all_warnings]
    /\ validator_exit' = IF all_errors # <<>> THEN 1 ELSE 0
    /\ v_pc' = "exited"
    /\ UNCHANGED <<modules_config, config_file, shared_fs, shared_package, all_errors,
                   all_warnings>>
    /\ ValidatorFrame

NextValidator ==
    \/ ValidatorLoad
    \/ ValidatorCheck
    \/ ValidatorReport

SpecValidator == InitValidator /\ [][NextValidator]_vars

-----------------------------------------------------------------------------
(* Claims about the validator *)

Validated == v_pc = "exited" /\ config_file.state = "loaded"

\* the depends_on entries that name no defined module
DanglingEdges ==
    {<<m, d>> \in (DOMAIN Modules) \X (0..3) : d \in Modules[m].depends_on \ DOMAIN Modules}

\* C15: every depends_on entry that names an undefined module is reported as
\* an error and the outcome is then a failure; without errors the outcome is
\* a success, whatever the warnings.
DanglingEdgeReported ==
    Validated =>
        /\ \A e \in DanglingEdges :
              [kind |-> "dependency", module |-> e[1], dep |-> e[2]] \in Range(report.errors)
        /\ DanglingEdges # {} => validator_exit = 1
        /\ report.errors = <<>> => validator_exit = 0

DanglingEdgeWitness ==
    /\ Validated
    /\ Cardinality(DanglingEdges) = 2
    /\ report.warnings # <<>>
    /\ validator_exit = 1

AllPathsExist ==
    \A m \in DOMAIN Modules : \A path \in Modules[m].paths : exists(shared_fs, split(path, "/"))

AllDependenciesDefined == DanglingEdges = {}

\* C16, as stated: when every declared path exists and every depends_on entry
\* names a defined module, the full check produces zero errors.
NoFalseErrors ==
    (Validated /\ AllPathsExist /\ AllDependenciesDefined) => report.errors = <<>>

AllPatternsDefined ==
    \A p \in DOMAIN ImportPatterns : ListedFor(p) \subseteq DOMAIN Modules

\* every export of package.json that has a barrel file on disk has that file,
\* or its directory, among the declared paths
AllExportsCovered ==
    shared_package.present =>
        \A subpath \in DOMAIN shared_package.exports :
            LET dir == "src/" \o lstrip_chars(subpath, {".", "/"})
            IN (/\ subpath # "."
                /\ ~contains(subpath, "*")
                /\ is_file(shared_fs, split(dir \o "/index.ts", "/")))
               => (\E m \in DOMAIN Modules :
                      dir \in Modules[m].paths \/ (dir \o "/index.ts") \in Modules[m].paths)

\* C16, amended: when every declared path exists, every depends_on entry and
\* every import pattern names defined modules only, and every export with a
\* barrel file is covered by a declared path, the full check produces zero
\* errors.
NoFalseErrorsAmended ==
    (Validated /\ AllPathsExist /\ AllDependenciesDefined /\ AllPatternsDefined
        /\ AllExportsCovered) => report.errors = <<>>

NoFalseErrorsWitness ==
    /\ Validated
    /\ AllPathsExist /\ AllDependenciesDefined /\ AllPatternsDefined /\ AllExportsCovered
    /\ DOMAIN ImportPatterns # {}
    /\ shared_package.present
    /\ \E m \in DOMAIN Modules : Modules[m].depends_on # {}
    /\ report.errors = <<>>
    /\ validator_exit = 0

-----------------------------------------------------------------------------
(* The validator and the resolver on one registry file: the validator checks
   shared_modules.json, analyze_handler then loads the same file *)

CheckedPaths ==
    {<<{"src/domain"}, {"src/infrastructure"}>>, <<{"src/gone"}, {"src/infrastructure"}>>}

CheckedTree ==
    TreeOf(SharedBase \cup {<<"src", "infrastructure", "index.ts">>})

CheckedPackages ==
    {pkg \in SharedPackages_ : "." \notin DOMAIN pkg.exports}

\* the registries of the validator, module 1 always included or not
CheckedRegistries ==
    {[modules |-> [i \in 1..2 |-> [paths |-> P[i],
                                   depends_on |-> {e[2] : e \in {x \in E : x[1] = i}},
                                   always_include |-> (i = 1 /\ a)]],
      import_patterns |-> ip] :
        P \in CheckedPaths, E \in ValidatorEdges, ip \in ValidatorPatterns, a \in BOOLEAN}

InitChecked ==
    /\ ResolveIdle
    /\ GoIdle
    /\ ArchiveIdle
    /\ modules_config = NoRegistry
    /\ script = "none"
    /\ main_pc = "start"
    /\ ENABLE_PRUNING = TRUE
    /\ config_loaded = FALSE
    /\ config_file \in {[ok |-> FALSE, value |-> NoRegistry, state |-> "unread"]}
                          \cup {[ok |-> TRUE, value |-> r, state |-> "unread"] :
                                   r \in CheckedRegistries}
    /\ units = <<>>
    /\ task = <<>>
    /\ touched = <<>>
    /\ zips_dir = {}
    /\ exit_code = -1
    /\ v_pc = "start"
    /\ shared_fs = CheckedTree
    /\ shared_package \in CheckedPackages
    /\ all_errors = <<>>
    /\ all_warnings = <<>>
    /\ report = [errors |-> <<>>, warnings |-> <<>>]
    /\ validator_exit = -1

\* analyze_handler on the registry the validator has checked
AnalyzeChecked ==
    /\ v_pc = "exited"
    /\ config_file.state = "loaded"
    /\ NextResolve

NextChecked ==
    \/ NextValidator
    \/ AnalyzeChecked

SpecChecked == InitChecked /\ [][NextChecked]_vars

\* C21: when the validator reported zero errors for the registry, every
\* module ID resolve_modules returns is defined in the registry, and
\* get_module_paths returns the declared paths of every one of them.
ValidatedResolution ==
    (Validated /\ report.errors = <<>>) =>
        /\ Returned => required \subseteq DOMAIN Modules
        /\ pc = "done" =>
              \A m \in required : m \in DOMAIN Modules /\ Modules[m].paths \subseteq paths

ValidatedResolutionWitness ==
    /\ Validated
    /\ report.errors = <<>>
    /\ pc = "done"
    /\ DeepRefs # {}
    /\ required = {1, 2}
    /\ \E m \in required : DependsOn(m) # {}
    /\ paths = {"src/domain", "src/infrastructure"}

====
